---------------------------- MODULE Spec2Model ----------------------------
(***************************************************************************)
(* CamControl: the camera rig controller (CameraRig.js) as a state machine.*)
(*                                                                         *)
(* Numbers.  State fields (distance, angles in degrees) are integers.      *)
(* Derived geometry is fixed-point with three decimals: the integer n      *)
(* stands for n/1000 scene units.  Quantities that go through a JavaScript *)
(* division are IEEE-extended: <<"num", n>>, <<"inf", 1>>, <<"inf", -1>>,   *)
(* <<"nan", 0>>, with the propagation rules of the language.               *)
(*                                                                         *)
(* Objects.  this.state and this.originalState are references into a heap  *)
(* of objects, so that copying ({...x}) and aliasing (=) differ.           *)
(***************************************************************************)
EXTENDS Integers, Sequences, FiniteSets, TLC

(***************************************************************************)
(* Bounds of the model.                                                    *)
(***************************************************************************)
\* largest distance given to the rig
MaxDist == 3
\* orbit angles are 0, 45, ..., 45 * MaxAngleStep degrees
MaxAngleStep == 2
\* number of operations in a run
MaxOps == 3

\* the calls of the settings store that a behaviour starts
MaxCalls == 3

(***************************************************************************)
(* Fixed-point arithmetic.                                                 *)
(***************************************************************************)
Unit == 10 * 100

Abs(n) == IF n < 0 THEN -n ELSE n

Sign(n) == IF n < 0 THEN -1 ELSE IF n > 0 THEN 1 ELSE 0

\* integer quotient rounded toward zero
Quot(a, b) == Sign(a) * Sign(b) * (Abs(a) \div Abs(b))

\* product of two fixed-point numbers
Mul(a, b) == Quot(a * b, Unit)

RECURSIVE SqrtIter(_, _, _)
SqrtIter(n, lo, hi) ==
    IF hi - lo <= 1 THEN lo
    ELSE LET mid == (lo + hi) \div 2
         IN  IF mid * mid <= n THEN SqrtIter(n, mid, hi) ELSE SqrtIter(n, lo, mid)

\* floor of the square root of a natural number below 2^30
ISqrt(n) == SqrtIter(n, 0, 32768)

\* Math.sin / Math.cos of THREE.MathUtils.degToRad(deg), deg a multiple of 45
SinTable == <<0, 707, 1000, 707, 0, -707, -1000, -707>>

Sin(deg) == SinTable[((deg \div 45) % 8) + 1]

Cos(deg) == Sin(deg + 90)

(***************************************************************************)
(* IEEE-extended numbers.                                                  *)
(***************************************************************************)
Fin(n) == <<"num", n>>

NaN == <<"nan", 0>>

Inf(s) == <<"inf", s>>

IsFinite(x) == x[1] = "num"

IsNaN(x) == x[1] = "nan"

XSign(x) == IF x[1] = "num" THEN Sign(x[2]) ELSE x[2]

XNeg(x) == IF x[1] = "nan" THEN NaN ELSE <<x[1], -x[2]>>

XAdd(x, y) ==
    IF IsNaN(x) \/ IsNaN(y) THEN NaN
    ELSE IF IsFinite(x) /\ IsFinite(y) THEN Fin(x[2] + y[2])
    ELSE IF IsFinite(x) THEN y
    ELSE IF IsFinite(y) THEN x
    ELSE IF x[2] = y[2] THEN x ELSE NaN

XSub(x, y) == XAdd(x, XNeg(y))

XMul(x, y) ==
    IF IsNaN(x) \/ IsNaN(y) THEN NaN
    ELSE IF IsFinite(x) /\ IsFinite(y) THEN Fin(Mul(x[2], y[2]))
    ELSE IF XSign(x) = 0 \/ XSign(y) = 0 THEN NaN
    ELSE Inf(XSign(x) * XSign(y))

XDiv(x, y) ==
    IF IsNaN(x) \/ IsNaN(y) THEN NaN
    ELSE IF IsFinite(x) /\ IsFinite(y)
         THEN IF y[2] = 0
              THEN IF x[2] = 0 THEN NaN ELSE Inf(Sign(x[2]))
              ELSE Fin(Quot(x[2] * Unit, y[2]))
    ELSE IF IsFinite(x) THEN Fin(0)
    ELSE IF IsFinite(y) THEN Inf(XSign(x) * (IF y[2] < 0 THEN -1 ELSE 1))
    ELSE NaN

\* x < y as JavaScript evaluates it: false when either side is NaN
XLess(x, y) ==
    IF IsNaN(x) \/ IsNaN(y) THEN FALSE
    ELSE IF IsFinite(x) /\ IsFinite(y) THEN x[2] < y[2]
    ELSE IF IsFinite(x) THEN y[2] > 0
    ELSE IF IsFinite(y) THEN x[2] < 0
    ELSE x[2] < y[2]

\* Math.min / Math.max: NaN if either argument is NaN
XMin(x, y) == IF IsNaN(x) \/ IsNaN(y) THEN NaN ELSE IF XLess(y, x) THEN y ELSE x

XMax(x, y) == IF IsNaN(x) \/ IsNaN(y) THEN NaN ELSE IF XLess(x, y) THEN y ELSE x

XHalf(x) == IF IsFinite(x) THEN Fin(Quot(x[2], 2)) ELSE x

(***************************************************************************)
(* Vectors: triples of fixed-point numbers (THREE.Vector3).                *)
(***************************************************************************)
Cross(a, b) ==
    << Mul(a[2], b[3]) - Mul(a[3], b[2]),
       Mul(a[3], b[1]) - Mul(a[1], b[3]),
       Mul(a[1], b[2]) - Mul(a[2], b[1]) >>

Dot(a, b) == Mul(a[1], b[1]) + Mul(a[2], b[2]) + Mul(a[3], b[3])

Length(v) == ISqrt(v[1] * v[1] + v[2] * v[2] + v[3] * v[3])

\* Vector3.normalize(): divideScalar(length() || 1)
Normalize(v) ==
    LET DivideScalar(len) ==
          IF len = 0 THEN v
          ELSE << Quot(v[1] * Unit, len), Quot(v[2] * Unit, len), Quot(v[3] * Unit, len) >>
    IN  DivideScalar(Length(v))

\* v.applyQuaternion(new Quaternion().setFromAxisAngle(k, degToRad(deg))):
\* the rotation of v about the unit axis k
ApplyAxisAngle(v, k, deg) ==
    LET Rotated(c, sn, kv, kd) ==
          << Mul(v[1], c) + Mul(kv[1], sn) + Mul(k[1], kd),
             Mul(v[2], c) + Mul(kv[2], sn) + Mul(k[2], kd),
             Mul(v[3], c) + Mul(kv[3], sn) + Mul(k[3], kd) >>
    IN  Rotated(Cos(deg), Sin(deg), Cross(k, v), Mul(Dot(k, v), Unit - Cos(deg)))

\* a vector as the three numbers stored in a position buffer
Point(v) == << Fin(v[1]), Fin(v[2]), Fin(v[3]) >>

(***************************************************************************)
(* Constants of CameraRig.js, in fixed point.                              *)
(***************************************************************************)
\* Math.tan(THREE.MathUtils.degToRad(fov / 2)), fov = 50
TanHalfFov == 466
\* distToPlane < 0.1
MinDistToPlane == 100
\* marginFactor = 1.1
marginFactor == 1100
\* minScale = 0.5
minScale == 500
\* maxScale = 2.0
maxScale == 2000
\* frameZ = camZ > 0 ? 0.01 : -0.01
FrameOffset == 10
\* Math.PI, kept in degrees
PiDeg == 180
\* cameraInfo.distance || 3
DefaultDistance == 3

Fields == {"distance", "orbitH", "orbitV", "pan", "tilt"}

(***************************************************************************)
(* Camera position: spherical to cartesian around the origin.              *)
(***************************************************************************)
\* a variant with the horizontal sine and cosine exchanged
CamPos_swapXZ(s) ==
    << Mul(Mul(s.distance * Unit, Cos(s.orbitV)), Cos(s.orbitH)),
       Mul(s.distance * Unit, Sin(s.orbitV)),
       Mul(Mul(s.distance * Unit, Cos(s.orbitV)), Sin(s.orbitH)) >>

CamPos(s) ==
    << Mul(Mul(s.distance * Unit, Cos(s.orbitV)), Sin(s.orbitH)),
       Mul(s.distance * Unit, Sin(s.orbitV)),
       Mul(Mul(s.distance * Unit, Cos(s.orbitV)), Cos(s.orbitH)) >>

\* the look direction with pan (about up) and tilt (about right) applied
Forward(s) ==
    LET LookDir(cam) == Normalize(<< -cam[1], -cam[2], -cam[3] >>)
        Right(lookDir) == Normalize(Cross(lookDir, << 0, Unit, 0 >>))
        Up(lookDir, right) == Normalize(Cross(right, lookDir))
        PanTilt(lookDir, right) ==
          ApplyAxisAngle(ApplyAxisAngle(lookDir, Up(lookDir, right), s.pan), right, s.tilt)
        Turned(lookDir) == PanTilt(lookDir, Right(lookDir))
    IN  Turned(LookDir(CamPos(s)))

\* distToPlane = Math.abs(camZ)
DistToPlane(s) == Abs(CamPos(s)[3])

\* the early return taken on camZ instead of Math.abs(camZ)
TooClose_noAbs(s) == CamPos(s)[3] < MinDistToPlane

\* the early return of updateViewportFrame
TooClose(s) == DistToPlane(s) < MinDistToPlane

BaseViewHeight(s) == Mul(2 * TanHalfFov, DistToPlane(s))

\* scaleToMatchImage used as it is, not clamped
ViewScale_unclamped(s, ih) ==
    XDiv(XMul(Fin(ih), Fin(marginFactor)), Fin(BaseViewHeight(s)))

\* Math.max(minScale, Math.min(maxScale, scaleToMatchImage))
ViewScale(s, ih) ==
    LET scaleToMatchImage == XDiv(XMul(Fin(ih), Fin(marginFactor)), Fin(BaseViewHeight(s)))
    IN  XMax(Fin(minScale), XMin(Fin(maxScale), scaleToMatchImage))

ViewHeight(s, ih) == XMul(Fin(BaseViewHeight(s)), ViewScale(s, ih))

ViewWidth(s, ar, ih) == XMul(ViewHeight(s, ih), Fin(ar))

\* the centre ray projected to z = 0, NaN replaced by 0, clamped to +-maxOffset
ClampCenter(c, maxOffset) ==
    LET Clamp(center) == XMax(Fin(-maxOffset), XMin(Fin(maxOffset), center))
    IN  Clamp(IF IsNaN(c) THEN Fin(0) ELSE c)

\* centerX = camX + (forward.x / forward.z) * (-camZ), and centerY likewise
Center(cam, forward, i) ==
    XAdd(Fin(cam[i]), XMul(XDiv(Fin(forward[i]), Fin(forward[3])), Fin(-cam[3])))

\* << clampedCenterX, clampedCenterY >>: maxOffset is imageWidth for both
ClampedCenter(s, iw) ==
    LET Clamped(cam, forward) ==
          << ClampCenter(Center(cam, forward, 1), iw),
             ClampCenter(Center(cam, forward, 2), iw) >>
    IN  Clamped(CamPos(s), Forward(s))

\* a frame always put in front of the image
FrameZ_front(s) == FrameOffset

FrameZ(s) == IF CamPos(s)[3] > 0 THEN FrameOffset ELSE -FrameOffset

\* what updateViewportFrame() computes past its early return: the five points
\* written to viewportFrame.geometry.attributes.position and the scale,
\* position and rotation.y given to viewportPlane
FrameGeometry(s, ar, iw, ih) ==
    LET Written(c, vw, vh, hw, hh, fz) ==
          [positions |-> << << XSub(c[1], hw), XSub(c[2], hh), fz >>,
                            << XAdd(c[1], hw), XSub(c[2], hh), fz >>,
                            << XAdd(c[1], hw), XAdd(c[2], hh), fz >>,
                            << XSub(c[1], hw), XAdd(c[2], hh), fz >>,
                            << XSub(c[1], hw), XSub(c[2], hh), fz >> >>,
           scale     |-> << vw, vh, Fin(Unit) >>,
           position  |-> << c[1], c[2], fz >>,
           rotationY |-> IF fz[2] > 0 THEN 0 ELSE PiDeg]
    IN  Written(ClampedCenter(s, iw), ViewWidth(s, ar, ih), ViewHeight(s, ih),
                XHalf(ViewWidth(s, ar, ih)), XHalf(ViewHeight(s, ih)), Fin(FrameZ(s)))

(***************************************************************************)
(* Inputs.                                                                 *)
(***************************************************************************)
Distances == {-1, 0, 1, MaxDist}

Angles == {45 * k : k \in 0..MaxAngleStep}

PanTilts == {0, 45, 90}

FieldValues(f) ==
    IF f = "distance" THEN Distances
    ELSE IF f \in {"orbitH", "orbitV"} THEN Angles ELSE PanTilts

\* the partial states given to updateState: no field, one field, two fields
Partials ==
    {<<>>} \cup UNION { {f :> v : v \in FieldValues(f)} : f \in Fields }
           \cup { [distance |-> d, tilt |-> 90] : d \in {1, MaxDist} }

\* an optional value: <<>> when the key is missing, <<v>> when it is present
Opt(S) == {<<>>} \cup {<<v>> : v \in S}

Part(key, opt) == IF opt = <<>> THEN <<>> ELSE key :> opt[1]

\* analysis records: any of distance, yaw, pitch, shotType, angle may be missing
CameraInfos ==
    { Part("distance", d) @@ Part("yaw", y) @@ Part("pitch", pt) :
        d \in Opt({0, 1}), y \in Opt({45}), pt \in Opt({45}) }
    \cup { [distance |-> DefaultDistance, yaw |-> 0, pitch |-> 0],
           [distance |-> -1, yaw |-> 45, pitch |-> 45,
            shotType |-> "close-up", angle |-> "low angle"],
           [shotType |-> "close-up"] }

\* the fields a caller assigns to in a snapshot it was given, and the values
SnapshotFields == {"distance", "pan"}

SnapshotValue(f) == IF f = "distance" THEN -1 ELSE 45

Ratios == {1000, 1500}

ImageSizes == {<<3000, 2000>>, <<3000, 1000>>}

DefaultAspectRatio == 1778

DefaultImageSize == 2000

(***************************************************************************)
(* State.                                                                  *)
(***************************************************************************)
VARIABLES
    heap,              \* the objects: reference -> record of fields
    state,             \* this.state, a reference
    originalState,     \* this.originalState, a reference
    originalShotType,  \* this.originalShotType ("undefined" until set)
    originalAngle,     \* this.originalAngle
    aspectRatio,       \* this.aspectRatio
    imageWidth,        \* this.imageWidth
    imageHeight,       \* this.imageHeight
    cameraArm,         \* this.cameraArm: position, lookAt target
    cameraPivot,       \* this.cameraPivot.rotation: x, y in degrees
    orbitPath,         \* this.orbitPath.scale
    viewportFrame,     \* this.viewportFrame: visible, positions
    viewportPlane,     \* this.viewportPlane: visible, scale, position, rotationY
    frustumLines,      \* this.frustumLines positions: four <<start, end>>
    lastOp,            \* history: the operation that completed last
    opCount,           \* history: the number of operations completed
    captured           \* history: the state and tags set by the last setInitialState

\* the application around the rig: settings store, AI service, App
VARIABLES
    envKey,            \* import.meta.env.VITE_GEMINI_API_KEY, fixed by the build
    store,             \* the value stored under 'gemini_api_key'
    idb,               \* IndexedDB requests not yet completed, oldest first
    aiClient,          \* gemini.js aiClient: the key it was constructed with
    imageData,         \* App.imageData: the image whose data URL it holds
    isAnalyzed,        \* App.isAnalyzed
    calls,             \* the service calls: owner -> position, argument, result
    gen,               \* the generatePrompts invocation and its two snapshots
    save,              \* the save handler of the settings dialog
    positionPrompt,    \* text of the element 'position-prompt'
    movementPrompt,    \* text of the element 'movement-prompt'
    toast,             \* the message of the last error toast
    requests,          \* history: the external requests started so far
    rigVisible,        \* cameraRig.group.visible
    generateBtn,       \* the element 'generate-btn': disabled or enabled
    cleared            \* history: clearImage ran and no image was chosen since

\* the settings store seen from inside: storage.js and its IndexedDB requests
VARIABLES
    db,                \* storage.js db: the database handle, null until opened
    opens,             \* indexedDB.open requests not yet completed, oldest first
    txs,               \* transactions not yet finished, in order of creation
    scalls,            \* the calls of getApiKey, saveApiKey, clearApiKey
    lastWrite          \* history: the saveApiKey or clearApiKey resolved last

\* the scene and the SceneManager's registry of what it put there
VARIABLES
    objects,           \* SceneManager.objects: the Map from key to object
    scene,             \* SceneManager.scene.children, as a set
    lastCall           \* history: the call made last, and what the key held

rigVars == << heap, state, originalState, originalShotType, originalAngle,
              aspectRatio, imageWidth, imageHeight, cameraArm, cameraPivot,
              orbitPath, viewportFrame, viewportPlane, frustumLines, lastOp,
              opCount, captured >>

\* what the analysis of an image shows and clearImage hides again
uiVars == << rigVisible, generateBtn, cleared >>

\* the service module and the App: everything but the two keys
serviceVars == << idb, aiClient, imageData, isAnalyzed, calls, gen, save,
                  positionPrompt, movementPrompt, toast, requests, uiVars >>

appVars == << envKey, store, serviceVars >>

storageVars == << db, opens, txs, scalls, lastWrite >>

registryVars == << objects, scene, lastCall >>

vars == << rigVars, appVars, storageVars, registryVars >>

Undefined == "undefined"

\* the live CameraState and the OriginalState, as values
State == heap[state]

Original == heap[originalState]

Zero3 == << Fin(0), Fin(0), Fin(0) >>

\* x || def : def when x is missing or falsy
OrDefault(info, key, def) ==
    IF key \in DOMAIN info /\ info[key] # 0 THEN info[key] ELSE def

\* info.key, undefined when missing
Get(info, key) == IF key \in DOMAIN info THEN info[key] ELSE Undefined

\* { ...obj }: a new object with the fields of obj; <<reference, heap>>
Spread(h, obj) ==
    LET r == CHOOSE x \in 1..(Cardinality(DOMAIN h) + 1) : x \notin DOMAIN h
    IN  << r, [x \in DOMAIN h \cup {r} |-> IF x = r THEN obj ELSE h[x]] >>

\* Object.assign replaced by a rebuild from the defaults: unspecified fields reset
Assign_replace(target, source) ==
    [f \in Fields |-> IF f \in DOMAIN source THEN source[f]
                      ELSE IF f = "distance" THEN DefaultDistance ELSE 0]

\* Object.assign that skips the tilt key
Assign_skipTilt(target, source) ==
    [f \in Fields |-> IF f \in DOMAIN source /\ f # "tilt" THEN source[f] ELSE target[f]]

\* Object.assign(target, source) on the fields of a CameraState
Assign(target, source) ==
    [f \in Fields |-> IF f \in DOMAIN source THEN source[f] ELSE target[f]]

\* what remains of the heap once only this.state and this.originalState are
\* referenced, references renamed: the live state first
Collect(h, sr, or) ==
    heap' = (IF sr = or THEN 1 :> h[sr] ELSE (1 :> h[sr]) @@ (2 :> h[or]))
    /\ state' = 1
    /\ originalState' = IF sr = or THEN 1 ELSE 2

(***************************************************************************)
(* Values of the application state.                                        *)
(***************************************************************************)
Null == "null"

\* the images a user loads, in this order
Images == {"A", "B"}

\* the calls of the AI service: one analyzeImage per loaded image, and the
\* two calls of generatePrompts
PromptCalls == {"position", "movement"}

Owners == Images \cup PromptCalls

\* a snapshot returned by getState / getOriginalState, before any was taken
NoSnapshot ==
    [distance |-> 0, orbitH |-> 0, orbitV |-> 0, pan |-> 0, tilt |-> 0,
     originalShotType |-> Undefined, originalAngle |-> Undefined]

\* a prompt text: which prompt the service wrote and for which states
NoText == [kind |-> "none", from |-> NoSnapshot, to |-> NoSnapshot]

EmptyText == [kind |-> "empty", from |-> NoSnapshot, to |-> NoSnapshot]

Placeholder == [kind |-> "placeholder", from |-> NoSnapshot, to |-> NoSnapshot]

NoInfo == [shotType |-> "none"]

NoError == [name |-> "none", apiKeyInMessage |-> FALSE]

\* the promise of a call: pending, fulfilled with info or text, or rejected
Pending == [status |-> "pending", info |-> NoInfo, text |-> NoText, error |-> NoError]

Fulfilled(info, text) ==
    [status |-> "fulfilled", info |-> info, text |-> text, error |-> NoError]

Rejected(error) ==
    [status |-> "rejected", info |-> NoInfo, text |-> NoText, error |-> error]

\* a call not started yet
IdleCall == [pc |-> "idle", arg |-> Null, apiKey |-> "none", client |-> Null,
             sent |-> 0, response |-> "none", result |-> Pending]

\* the generate button as the page's markup has it, before main.js sets it
AsInMarkup == "markup"

\* the application and the service module right after new App()
AppConstructed ==
    /\ idb = << >>
    /\ aiClient = Null
    /\ imageData = Null
    /\ isAnalyzed = FALSE
    /\ calls = [o \in Owners |-> IdleCall]
    /\ gen = [pc |-> "idle", first |-> Null,
              current |-> NoSnapshot, original |-> NoSnapshot]
    /\ save = [pc |-> "idle", key |-> Null]
    /\ positionPrompt = Placeholder
    /\ movementPrompt = Placeholder
    /\ toast = Null
    /\ requests = {}
    /\ rigVisible = FALSE
    /\ generateBtn = AsInMarkup
    /\ cleared = FALSE

\* the calls of the store, and the outcome of one
CallIds == 1..MaxCalls
NoWrite == [op |-> "none", key |-> Null]
Unsettled == [status |-> "pending", value |-> Null]
Resolved(value) == [status |-> "fulfilled", value |-> value]
Failed == [status |-> "rejected", value |-> Null]
IdleStorageCall == [pc |-> "idle", op |-> "none", key |-> Null, opened |-> FALSE,
                    after |-> NoWrite, quiet |-> TRUE, result |-> Unsettled]

\* storage.js right after the module has loaded: let db = null
StorageLoaded ==
    /\ db = Null
    /\ opens = << >>
    /\ txs = << >>
    /\ scalls = [c \in CallIds |-> IdleStorageCall]
    /\ lastWrite = NoWrite

\* what the constructor of SceneManager puts into the scene: three lights,
\* and the grid and the axes, which it registers as well
Lights == {"ambient", "directional", "fill"}
Helpers == {"grid", "axes"}

\* the SceneManager right after new SceneManager(canvas)
ManagerConstructed ==
    /\ objects = [k \in Helpers |-> k]
    /\ scene = Lights \cup Helpers
    /\ lastCall = [op |-> "constructor", key |-> Null, object |-> Null,
                   previous |-> Undefined]

\* the rig right after new CameraRig(sceneManager)
RigConstructed ==
    /\ heap = (1 :> [distance |-> DefaultDistance, orbitH |-> 0, orbitV |-> 0,
                     pan |-> 0, tilt |-> 0])
              @@ (2 :> [distance |-> DefaultDistance, orbitH |-> 0, orbitV |-> 0,
                        pan |-> 0, tilt |-> 0])
    /\ state = 1
    /\ originalState = 2
    /\ originalShotType = Undefined
    /\ originalAngle = Undefined
    /\ aspectRatio = DefaultAspectRatio
    /\ imageWidth = DefaultImageSize
    /\ imageHeight = DefaultImageSize
    /\ cameraArm = [position |-> << 0, 0, 0 >>, lookAt |-> "none"]
    /\ cameraPivot = [x |-> 0, y |-> 0]
    /\ orbitPath = 1
    /\ viewportFrame = [visible |-> TRUE, positions |-> [i \in 1..5 |-> Zero3]]
    /\ viewportPlane = [visible |-> TRUE,
                        scale |-> << Fin(Unit), Fin(Unit), Fin(Unit) >>,
                        position |-> Zero3, rotationY |-> 0]
    /\ frustumLines = [i \in 1..4 |-> << Zero3, Zero3 >>]
    /\ lastOp = "constructor"
    /\ opCount = 0
    /\ captured = [set |-> FALSE, state |-> heap[2],
                   shotType |-> Undefined, angle |-> Undefined]

\* a rig on its own: the application around it stays as constructed
Init ==
    /\ RigConstructed
    /\ AppConstructed
    /\ StorageLoaded
    /\ ManagerConstructed
    /\ envKey = Undefined
    /\ store = Null

\* the operation op completes: one more operation of the run
Completes(op) ==
    /\ opCount < MaxOps
    /\ opCount' = opCount + 1
    /\ lastOp' = op

(***************************************************************************)
(* Operations of CameraRig.                                                *)
(***************************************************************************)
\* updateViewportFrame() with the live state s and image descriptor ar, iw, ih
updateViewportFrame(s, ar, iw, ih) ==
    LET Write(g) ==
          /\ viewportFrame' = [visible |-> TRUE, positions |-> g.positions]
          /\ viewportPlane' = [visible |-> TRUE, scale |-> g.scale,
                               position |-> g.position, rotationY |-> g.rotationY]
    IN  IF TooClose(s)
        THEN /\ viewportFrame' = [viewportFrame EXCEPT !.visible = FALSE]
             /\ viewportPlane' = [viewportPlane EXCEPT !.visible = FALSE]
        ELSE Write(FrameGeometry(s, ar, iw, ih))

\* updateFrustumLines() with the live state s, after the frame was updated
updateFrustumLines(s) ==
    LET Lines(cam, framePos) == [i \in 1..4 |-> << cam, framePos[i] >>]
    IN  frustumLines' = Lines(Point(CamPos(s)), viewportFrame'.positions)

\* a variant in which pan swings the arm around the orbit as orbitH does
updatePosition_panMovesArm(s) ==
    /\ cameraArm' = [position |-> CamPos([s EXCEPT !.orbitH = s.orbitH + s.pan]),
                     lookAt |-> "origin"]
    /\ cameraPivot' = [x |-> s.tilt, y |-> s.pan]
    /\ orbitPath' = s.distance
    /\ updateViewportFrame(s, aspectRatio, imageWidth, imageHeight)
    /\ updateFrustumLines(s)

\* a variant that scales the orbit path by the magnitude of the distance
updatePosition_absOrbit(s) ==
    /\ cameraArm' = [position |-> CamPos(s), lookAt |-> "origin"]
    /\ cameraPivot' = [x |-> s.tilt, y |-> s.pan]
    /\ orbitPath' = Abs(s.distance)
    /\ updateViewportFrame(s, aspectRatio, imageWidth, imageHeight)
    /\ updateFrustumLines(s)

\* updatePosition() with the live state s
updatePosition(s) ==
    /\ cameraArm' = [position |-> CamPos(s), lookAt |-> "origin"]
    /\ cameraPivot' = [x |-> s.tilt, y |-> s.pan]
    /\ orbitPath' = s.distance
    /\ updateViewportFrame(s, aspectRatio, imageWidth, imageHeight)
    /\ updateFrustumLines(s)

setAspectRatio(ratio) ==
    /\ Completes("setAspectRatio")
    /\ aspectRatio' = ratio
    /\ updateViewportFrame(State, ratio, imageWidth, imageHeight)
    /\ UNCHANGED << heap, state, originalState, originalShotType, originalAngle,
                    imageWidth, imageHeight, cameraArm, cameraPivot, orbitPath,
                    frustumLines, captured >>

\* setImageSize that also recentres the view: pan and tilt back to 0
setImageSize_recenter(width, height) ==
    /\ Completes("setImageSize")
    /\ imageWidth' = width
    /\ imageHeight' = height
    /\ Collect([heap EXCEPT ![state].pan = 0, ![state].tilt = 0], state, originalState)
    /\ updateViewportFrame(heap'[state'], aspectRatio, width, height)
    /\ UNCHANGED << originalShotType, originalAngle, aspectRatio, cameraArm,
                    cameraPivot, orbitPath, frustumLines, captured >>

setImageSize(width, height) ==
    /\ Completes("setImageSize")
    /\ imageWidth' = width
    /\ imageHeight' = height
    /\ updateViewportFrame(State, aspectRatio, width, height)
    /\ UNCHANGED << heap, state, originalState, originalShotType, originalAngle,
                    aspectRatio, cameraArm, cameraPivot, orbitPath,
                    frustumLines, captured >>

\* the object assigned to this.state by setInitialState
InitialState(cameraInfo) ==
    [distance |-> OrDefault(cameraInfo, "distance", DefaultDistance),
     orbitH   |-> OrDefault(cameraInfo, "yaw", 0),
     orbitV   |-> OrDefault(cameraInfo, "pitch", 0),
     pan      |-> 0,
     tilt     |-> 0]

setInitialState(cameraInfo) ==
    LET a == Spread(<<>>, InitialState(cameraInfo))
        b == Spread(a[2], a[2][a[1]])
    IN  /\ Completes("setInitialState")
        /\ Collect(b[2], a[1], b[1])
        /\ originalShotType' = Get(cameraInfo, "shotType")
        /\ originalAngle' = Get(cameraInfo, "angle")
        /\ updatePosition(heap'[state'])
        /\ captured' = [set |-> TRUE, state |-> heap'[state'],
                        shotType |-> Get(cameraInfo, "shotType"),
                        angle |-> Get(cameraInfo, "angle")]
        /\ UNCHANGED << aspectRatio, imageWidth, imageHeight >>

updateState(newState) ==
    /\ Completes("updateState")
    /\ Collect([heap EXCEPT ![state] = Assign(heap[state], newState)],
               state, originalState)
    /\ updatePosition(heap'[state'])
    /\ UNCHANGED << originalShotType, originalAngle, aspectRatio, imageWidth,
                    imageHeight, captured >>

\* this.state = this.originalState: the same object, not a copy
ResetTarget_alias(h, or) == << or, h >>

\* a reset of the orbit only: pan and tilt of the live state are kept
ResetTarget_keepPanTilt(h, or) ==
    Spread(h, [h[or] EXCEPT !.pan = h[state].pan, !.tilt = h[state].tilt])

\* the reference and heap after this.state = { ...this.originalState }
ResetTarget(h, or) == Spread(h, h[or])

resetToOriginal ==
    LET a == ResetTarget(heap, originalState)
    IN  /\ Completes("resetToOriginal")
        /\ Collect(a[2], a[1], originalState)
        /\ updatePosition(heap'[state'])
        /\ UNCHANGED << originalShotType, originalAngle, aspectRatio, imageWidth,
                        imageHeight, captured >>

\* the tags merged into a snapshot
Tags == [originalShotType |-> originalShotType, originalAngle |-> originalAngle]

\* getState() that returns this.state itself
getState_alias == << state, heap >>

\* getState(): <<reference of the returned object, heap>>
getState == Spread(heap, heap[state] @@ Tags)

\* getOriginalState(): <<reference of the returned object, heap>>
getOriginalState == Spread(heap, heap[originalState] @@ Tags)

\* a caller takes a snapshot and assigns v to its field f
assignToSnapshot(snap, f, v) ==
    /\ Collect([snap[2] EXCEPT ![snap[1]][f] = v], state, originalState)
    /\ UNCHANGED << originalShotType, originalAngle, aspectRatio, imageWidth,
                    imageHeight, cameraArm, cameraPivot, orbitPath, viewportFrame,
                    viewportPlane, frustumLines, captured >>

callerGetState(f, v) ==
    /\ Completes("getState")
    /\ assignToSnapshot(getState, f, v)

callerGetOriginalState(f, v) ==
    /\ Completes("getOriginalState")
    /\ assignToSnapshot(getOriginalState, f, v)

Next ==
    \/ \E info \in CameraInfos : setInitialState(info) /\ UNCHANGED << appVars, storageVars, registryVars >>
    \/ \E p \in Partials : updateState(p) /\ UNCHANGED << appVars, storageVars, registryVars >>
    \/ resetToOriginal /\ UNCHANGED << appVars, storageVars, registryVars >>
    \/ \E r \in Ratios : setAspectRatio(r) /\ UNCHANGED << appVars, storageVars, registryVars >>
    \/ \E sz \in ImageSizes : setImageSize(sz[1], sz[2]) /\ UNCHANGED << appVars, storageVars, registryVars >>
    \/ \E f \in SnapshotFields :
          callerGetState(f, SnapshotValue(f)) /\ UNCHANGED << appVars, storageVars, registryVars >>
    \/ \E f \in SnapshotFields :
          callerGetOriginalState(f, SnapshotValue(f)) /\ UNCHANGED << appVars, storageVars, registryVars >>

Spec == Init /\ [][Next]_vars

(***************************************************************************)
(* Properties.                                                             *)
(***************************************************************************)
RigOps == {"setInitialState", "updateState", "resetToOriginal",
           "setAspectRatio", "setImageSize"}

\* C1: once setInitialState has run, whatever updateState, setAspectRatio and
\* setImageSize calls followed, the live state right after resetToOriginal()
\* equals, field by field, the state captured by that setInitialState.
C1_ResetRestoresCaptured ==
    (lastOp = "resetToOriginal" /\ captured.set) =>
        \A f \in Fields : State[f] = captured.state[f]

\* a reset after setInitialState and one more operation, to a captured state
\* that is not the constructor's
C1_Witness ==
    /\ lastOp = "resetToOriginal"
    /\ captured.set
    /\ opCount = 3
    /\ captured.state.distance # DefaultDistance
    /\ captured.state.orbitH # 0
    /\ State = captured.state

\* C2: updateState(partial) leaves every field of the live state that is not a
\* key of partial as it was.
C2_UnspecifiedFieldsUnchanged ==
    [][\A p \in Partials : updateState(p) =>
          \A f \in Fields \ DOMAIN p : heap'[state'][f] = heap[state][f]]_vars

\* after an updateState, fields set by earlier operations still hold
C2_Witness ==
    /\ lastOp = "updateState"
    /\ State.pan = 45
    /\ State.orbitH = 45
    /\ State.tilt = 90
    /\ State.distance = 1

\* the object getState() returns
GetStateValue == getState[2][getState[1]]

\* C3: right after updateState(partial) getState() shows, for every key of
\* partial, the value partial gives it, and the live state is the previous one
\* overwritten by partial: each field holds the value of the last call that
\* specified it.
C3_LastWriteWins ==
    [][\A p \in Partials : updateState(p) =>
          /\ \A f \in DOMAIN p : GetStateValue'[f] = p[f]
          /\ heap'[state'] = [f \in Fields |-> IF f \in DOMAIN p THEN p[f]
                                                ELSE heap[state][f]]]_vars

\* three updates in a row have set distance, tilt, pan and orbitV
C3_Witness ==
    /\ lastOp = "updateState"
    /\ opCount = 3
    /\ ~captured.set
    /\ GetStateValue.distance = 1
    /\ GetStateValue.tilt = 90
    /\ GetStateValue.pan = 45
    /\ GetStateValue.orbitV = 45

\* C4: only setInitialState changes the OriginalState and its tags.
C4_OriginalReadOnly ==
    [][lastOp' # "setInitialState" =>
          /\ heap'[originalState'] = heap[originalState]
          /\ originalShotType' = originalShotType
          /\ originalAngle' = originalAngle]_vars

\* the original set by setInitialState is still there after an update and a reset
C4_Witness ==
    /\ lastOp = "updateState"
    /\ opCount = 3
    /\ captured.set
    /\ originalShotType = "close-up"
    /\ Original = captured.state
    /\ Original.distance = -1
    /\ State # Original

\* C5: setInitialState(info) sets distance, orbitH, orbitV to info.distance,
\* info.yaw, info.pitch, with 3, 0, 0 for the fields missing from info, pan
\* and tilt to 0, and stores an equal OriginalState with info.shotType and
\* info.angle.
C5_InitialStateFromInfo ==
    [][\A info \in CameraInfos : setInitialState(info) =>
          /\ heap'[state'] =
                [distance |-> IF "distance" \in DOMAIN info THEN info["distance"]
                              ELSE DefaultDistance,
                 orbitH   |-> IF "yaw" \in DOMAIN info THEN info["yaw"] ELSE 0,
                 orbitV   |-> IF "pitch" \in DOMAIN info THEN info["pitch"] ELSE 0,
                 pan      |-> 0,
                 tilt     |-> 0]
          /\ heap'[originalState'] = heap'[state']
          /\ originalShotType' = Get(info, "shotType")
          /\ originalAngle' = Get(info, "angle")]_vars

\* the object getOriginalState() returns
GetOriginalStateValue == getOriginalState[2][getOriginalState[1]]

\* C6: a caller that assigns to a field of the object it got from getState()
\* or getOriginalState() changes neither the live state nor the OriginalState,
\* and the next getState() / getOriginalState() return what they returned before.
C6_SnapshotsAreCopies ==
    [][lastOp' \in {"getState", "getOriginalState"} =>
          /\ heap'[state'] = heap[state]
          /\ heap'[originalState'] = heap[originalState]
          /\ GetStateValue' = GetStateValue
          /\ GetOriginalStateValue' = GetOriginalStateValue]_vars

\* a caller assigned to a snapshot of a rig whose live state and original
\* hold none of the assigned values
C6_Witness ==
    /\ lastOp \in {"getState", "getOriginalState"}
    /\ captured.set
    /\ \A f \in Fields : State[f] # SnapshotValue(f) /\ Original[f] # SnapshotValue(f)
    /\ State # Original
    /\ GetStateValue.originalShotType = "close-up"

\* C7: setAspectRatio and setImageSize leave the live state, the OriginalState
\* and its tags as they were, and set the descriptor they are given.
C7_DescriptorOpsKeepState ==
    [][lastOp' \in {"setAspectRatio", "setImageSize"} =>
          /\ heap'[state'] = heap[state]
          /\ heap'[originalState'] = heap[originalState]
          /\ originalShotType' = originalShotType
          /\ originalAngle' = originalAngle
          /\ \/ aspectRatio' \in Ratios /\ imageWidth' = imageWidth
                /\ imageHeight' = imageHeight
             \/ << imageWidth', imageHeight' >> \in ImageSizes
                /\ aspectRatio' = aspectRatio]_vars

\* the image size was set on a rig whose live state has left its original
C7_Witness ==
    /\ lastOp = "setImageSize"
    /\ captured.set
    /\ State.pan = 45
    /\ State.distance = 1
    /\ Original.distance = 1
    /\ imageWidth = 3000
    /\ viewportFrame.visible

\* the camera position of the live state, as stored in a position buffer
CameraPoint == Point(CamPos(State))

\* C8: after every rig operation each frustum segment starts at the camera
\* position of the live state and ends at the corresponding corner of the
\* viewport frame, which is the frame of the live state and the current image
\* descriptor whenever the frame is visible.
C8_FrustumTracksFrame ==
    lastOp \in RigOps =>
        /\ \A i \in 1..4 : frustumLines[i] = << CameraPoint, viewportFrame.positions[i] >>
        /\ viewportFrame.visible =>
              viewportFrame.positions =
                 FrameGeometry(State, aspectRatio, imageWidth, imageHeight).positions

\* cameraZ = distance * cos(orbitV) * cos(orbitH) of the live state
CameraZ == Mul(Mul(State.distance * Unit, Cos(State.orbitV)), Cos(State.orbitH))

FrameCoordinatesFinite ==
    \A i \in 1..5 : \A j \in 1..3 : IsFinite(viewportFrame.positions[i][j])

\* C9: after every rig operation the frame and the plane are hidden exactly
\* when |cameraZ| < 0.1; a recomputation that hides the frame writes no corner;
\* and no coordinate of the frame is ever NaN or infinite.
C9_HiddenWhenTooClose ==
    /\ [](lastOp \in RigOps =>
             /\ viewportFrame.visible = ~(Abs(CameraZ) < MinDistToPlane)
             /\ viewportPlane.visible = viewportFrame.visible)
    /\ [][~viewportFrame'.visible =>
             viewportFrame'.positions = viewportFrame.positions]_vars
    /\ []FrameCoordinatesFinite

\* a camera at a non-zero distance turned side-on or overhead: the frame is
\* hidden and keeps the corners computed before
C9_Witness ==
    /\ lastOp = "updateState"
    /\ ~viewportFrame.visible
    /\ ~viewportPlane.visible
    /\ State.distance # 0
    /\ Abs(CameraZ) < MinDistToPlane
    /\ viewportFrame.positions[1] # Zero3

\* the scale factor as the claim gives it: min(2.0, max(0.5, x))
ClaimedScale(x) == XMin(Fin(maxScale), XMax(Fin(minScale), x))

\* frame height and width as the claim gives them, for the live state
ClaimedHeight ==
    LET base == Mul(2 * TanHalfFov, Abs(CameraZ))
    IN  XMul(Fin(base),
             ClaimedScale(XDiv(XMul(Fin(imageHeight), Fin(marginFactor)), Fin(base))))

FrameSizeAsClaimed ==
    /\ viewportPlane.scale[2] = ClaimedHeight
    /\ viewportPlane.scale[1] = XMul(ClaimedHeight, Fin(aspectRatio))
    /\ viewportFrame.positions[3][2] =
          XAdd(viewportFrame.positions[1][2], XAdd(XHalf(ClaimedHeight), XHalf(ClaimedHeight)))
    /\ viewportFrame.positions[3][1] =
          XAdd(viewportFrame.positions[1][1],
               XAdd(XHalf(XMul(ClaimedHeight, Fin(aspectRatio))),
                    XHalf(XMul(ClaimedHeight, Fin(aspectRatio)))))

\* C10 as stated: in every state in which the frame is visible, the frame
\* height is baseViewHeight * s, s = min(2.0, max(0.5, imageHeight * 1.1 /
\* baseViewHeight)), and the frame width is the height times aspectRatio.
C10_FrameSizeWheneverVisible == viewportFrame.visible => FrameSizeAsClaimed

\* C10 amended: the same in every state a rig operation has produced; the
\* constructor leaves the frame visible without having computed it.
C10_FrameSizeAfterOperation ==
    (lastOp \in RigOps /\ viewportFrame.visible) => FrameSizeAsClaimed

\* a visible frame computed by updateState at distance 1, its scale clamped at 2.0
C10_Witness ==
    /\ lastOp = "updateState"
    /\ viewportFrame.visible
    /\ State.distance = 1
    /\ imageHeight = DefaultImageSize
    /\ viewportPlane.scale[2] = XMul(Fin(BaseViewHeight(State)), Fin(maxScale))
    /\ FrameSizeAsClaimed

(***************************************************************************)
(* C11: whenever the frame is visible after an operation, its center X     *)
(* lies within [-imageWidth, +imageWidth] and its center Y within          *)
(* [-imageHeight, +imageHeight].                                           *)
(***************************************************************************)
C11_CenterClampedPerAxis ==
    (lastOp \in RigOps /\ viewportFrame.visible) =>
        /\ ~XLess(Fin(imageWidth), viewportPlane.position[1])
        /\ ~XLess(viewportPlane.position[1], Fin(-imageWidth))
        /\ ~XLess(Fin(imageHeight), viewportPlane.position[2])
        /\ ~XLess(viewportPlane.position[2], Fin(-imageHeight))
        /\ ~IsNaN(viewportPlane.position[1])
        /\ ~IsNaN(viewportPlane.position[2])

\* what the code does: both coordinates are clamped with imageWidth
CenterClampedByWidth ==
    (lastOp \in RigOps /\ viewportFrame.visible) =>
        \A i \in 1..2 :
            /\ ~IsNaN(viewportPlane.position[i])
            /\ ~XLess(Fin(imageWidth), viewportPlane.position[i])
            /\ ~XLess(viewportPlane.position[i], Fin(-imageWidth))

\* updateState({pan: v}) or updateState({tilt: v}) leaves the arm and the orbit
\* path alone and turns only the pivot
PanTiltTurnsOnlyPivot(f, v) ==
    /\ cameraArm' = cameraArm
    /\ orbitPath' = orbitPath
    /\ cameraPivot' = IF f = "pan" THEN [cameraPivot EXCEPT !.y = v]
                                   ELSE [cameraPivot EXCEPT !.x = v]
    /\ \A g \in Fields \ {f} : State'[g] = State[g]
    /\ Original' = Original
    /\ << aspectRatio, imageWidth, imageHeight >>' =
           << aspectRatio, imageWidth, imageHeight >>

\* C12 as stated: from any state at all, updateState({pan: p}) and
\* updateState({tilt: t}) leave the camera arm position and the orbit-path
\* scale unchanged and change only the pivot rotation (and the frame and
\* frustum geometry).
C12_PanTiltFromAnyState ==
    [][\A f \in {"pan", "tilt"} : \A v \in PanTilts :
          updateState(f :> v) => PanTiltTurnsOnlyPivot(f, v)]_vars

\* C12: from any state in which the rig has been positioned (a
\* setInitialState, updateState or resetToOriginal has completed, so
\* updatePosition has run), updateState({pan: p}) and updateState({tilt: t})
\* leave the camera arm position and the orbit-path scale unchanged and
\* change only the pivot rotation (and the frame and frustum geometry).
C12_PanTiltOncePositioned ==
    [][\A f \in {"pan", "tilt"} : \A v \in PanTilts :
          (cameraArm.lookAt = "origin" /\ updateState(f :> v))
              => PanTiltTurnsOnlyPivot(f, v)]_vars

\* a rig whose only two operations set pan 45 and tilt 90: the second of them
\* ran on a positioned rig and left the arm on the +Z axis at distance 3
C12_Witness ==
    /\ lastOp = "updateState"
    /\ opCount = 2
    /\ ~captured.set
    /\ State = [distance |-> DefaultDistance, orbitV |-> 0, orbitH |-> 0,
                pan |-> 45, tilt |-> 90]
    /\ cameraPivot = [x |-> 90, y |-> 45]
    /\ cameraArm = [position |-> << 0, 0, DefaultDistance * Unit >>,
                    lookAt |-> "origin"]
    /\ orbitPath = DefaultDistance

\* the operations that end by calling updatePosition
PositionOps == {"setInitialState", "updateState", "resetToOriginal"}

\* C13: after every completed setInitialState, updateState or
\* resetToOriginal, and in every state that follows one, the scale of the
\* orbit path equals the distance of the live state exactly.
C13_OrbitScaleIsDistance ==
    (lastOp \in PositionOps \/ cameraArm.lookAt = "origin")
        => orbitPath = State.distance

\* an image analysed at distance -1, then the distance set to 1 by
\* updateState: the orbit path follows from -1 to 1
C13_Witness ==
    /\ lastOp = "updateState"
    /\ captured.set
    /\ captured.state.distance = -1
    /\ State.distance = 1
    /\ orbitPath = 1

\* the position the claim gives for the camera arm, in thousandths
SphericalPosition(d, orbitV, orbitH) ==
    << Mul(Mul(d * Unit, Cos(orbitV)), Sin(orbitH)),
       Mul(d * Unit, Sin(orbitV)),
       Mul(Mul(d * Unit, Cos(orbitV)), Cos(orbitH)) >>

\* C14: once setInitialState, updateState or resetToOriginal has completed,
\* the camera arm is at (d cos(orbitV) sin(orbitH), d sin(orbitV),
\* d cos(orbitV) cos(orbitH)) for the live state; the length of that vector
\* is the distance when the distance is positive and orbitV is within
\* (-90, 90), to the three thousandths that the rounding of the products
\* allows; the state {3, 0, 0} puts the arm at (0, 0, 3) and orbitH 90 puts
\* it at (3, 0, 0).
C14_ArmAtSphericalPosition ==
    (lastOp \in PositionOps \/ cameraArm.lookAt = "origin") =>
        /\ cameraArm.position =
               SphericalPosition(State.distance, State.orbitV, State.orbitH)
        /\ (State.distance > 0 /\ State.orbitV > -90 /\ State.orbitV < 90)
               => Abs(Length(cameraArm.position) - State.distance * Unit) <= 3
        /\ (State.distance = 3 /\ State.orbitV = 0 /\ State.orbitH = 0)
               => cameraArm.position = << 0, 0, 3000 >>
        /\ (State.distance = 3 /\ State.orbitV = 0 /\ State.orbitH = 90)
               => cameraArm.position = << 3000, 0, 0 >>

\* the claim's example: an image analysed as {distance 3, yaw 0, pitch 0},
\* then updateState({orbitH: 90}) brings the arm to (3, 0, 0)
C14_Witness ==
    /\ lastOp = "updateState"
    /\ opCount = 2
    /\ captured.set
    /\ captured.state = [distance |-> 3, orbitV |-> 0, orbitH |-> 0,
                         pan |-> 0, tilt |-> 0]
    /\ State = [captured.state EXCEPT !.orbitH = 90]
    /\ cameraArm.position = << 3000, 0, 0 >>

(***************************************************************************)
(* The settings store (storage.js), the AI service (gemini.js) and the     *)
(* App (main.js).  One action is one task of the event loop together with  *)
(* the promise reactions it triggers: the continuation of an await runs    *)
(* before any other event is dispatched.                                   *)
(***************************************************************************)
EnvPlaceholder == "your_api_key_here"

\* envKey && envKey !== 'your_api_key_here'
EnvKeyUsable == envKey \notin {Undefined, "", EnvPlaceholder}

\* request.result?.value || null
StoredKey == IF store \in {Null, ""} THEN Null ELSE store

\* the keys a build and a user start with: <<environment key, stored key>>
InitialSettings ==
    { << Undefined, Null >>, << Undefined, "K1" >>, << "E", "K1" >> }

\* the key typed into the settings dialog
NewKey == "K2"

\* the errors a call can fail with; apiKeyInMessage: message.includes('API key')
NotConfigured == [name |-> "API key not configured", apiKeyInMessage |-> TRUE]

InvalidFormat == [name |-> "Invalid image data format", apiKeyInMessage |-> FALSE]

\* what the external request of analyzeImage can come back with: a JSON
\* text, a text that JSON.parse rejects (the message of the SyntaxError
\* quotes the text or not, as the engine chooses), a failed fetch, a
\* refused key
AnalysisOutcomes(image) ==
    IF image = "B"
    THEN { [kind |-> "json", error |-> NoError],
           [kind |-> "auth", error |-> [name |-> "API key not valid", apiKeyInMessage |-> TRUE]] }
    ELSE
    { [kind |-> "json", error |-> NoError],
      [kind |-> "text", error |-> [name |-> "SyntaxError", apiKeyInMessage |-> FALSE]],
      [kind |-> "text", error |-> [name |-> "SyntaxError", apiKeyInMessage |-> TRUE]],
      [kind |-> "network", error |-> [name |-> "Failed to fetch", apiKeyInMessage |-> FALSE]],
      [kind |-> "auth", error |-> [name |-> "API key not valid", apiKeyInMessage |-> TRUE]] }

\* what the external request of a prompt call can come back with
PromptOutcomes ==
    { [kind |-> "text", error |-> NoError],
      [kind |-> "network", error |-> [name |-> "Failed to fetch", apiKeyInMessage |-> FALSE]] }

\* the record the service answers for the image in the request
AnalysisOf(image) ==
    IF image = "A"
    THEN [distance |-> 1, yaw |-> 45, pitch |-> 45,
          shotType |-> "close-up", angle |-> "low angle"]
    ELSE [distance |-> 2, yaw |-> 90, pitch |-> 0,
          shotType |-> "long shot", angle |-> "high angle"]

\* the record analyzeImage returns from its catch block (height in thousandths)
DefaultRecord ==
    [distance |-> 3, focalLength |-> 50, pitch |-> 0, yaw |-> 0, roll |-> 0,
     height |-> 1600, shotType |-> "medium shot", angle |-> "eye level",
     lens |-> "normal", description |-> "Unable to analyze camera position"]

\* image.width / image.height of the loaded image
ImageAspect(image) == IF image = "A" THEN 1500 ELSE 1000

ImagePlaneHeight == 2000

\* the slider inputs of the model
SliderInputs == { [orbitH |-> 90] }

\* imageBase64.match(/^data:(.+);base64,(.+)$/) on the data of an image
WellFormed(data) == data # Null

RemoveAt(s, k) == [j \in 1..(Len(s) - 1) |-> IF j < k THEN s[j] ELSE s[j + 1]]

\* the state of the service module and of the store's request queue
Service == [calls |-> calls, idb |-> idb, aiClient |-> aiClient,
            requests |-> requests]

\* ai.models.generateContent(...) of call o, ai being the client getAIClient
\* returned: the cached one, or a new one made with apiKey
SendRequest(sv, o, apiKey) ==
    LET Sent(client) ==
          [sv EXCEPT !.aiClient = client,
                     !.calls[o].pc = "request",
                     !.calls[o].client = client,
                     !.calls[o].sent = @ + 1,
                     !.requests = @ \cup {[owner |-> o, client |-> client,
                                           afterSave |-> save.pc = "done"]}]
    IN  Sent(IF sv.aiClient = Null THEN apiKey ELSE sv.aiClient)

\* a getAIClient that does not test the key: the call goes on to its request
AfterGetApiKey_noKeyCheck(sv, o, apiKey) ==
    SendRequest([sv EXCEPT !.calls[o].apiKey = apiKey], o, apiKey)

\* a call from the point where getApiKey has resolved with apiKey:
\* getAIClient, then for analyzeImage the test of the data URL, then the
\* external request
AfterGetApiKey(sv, o, apiKey) ==
    IF apiKey \in {Null, ""}
    THEN [sv EXCEPT !.calls[o].pc = "settled",
                    !.calls[o].apiKey = apiKey,
                    !.calls[o].result = Rejected(NotConfigured)]
    ELSE IF o \in Images /\ ~WellFormed(sv.calls[o].arg)
    THEN [sv EXCEPT !.aiClient = IF @ = Null THEN apiKey ELSE @,
                    !.calls[o].pc = "settled",
                    !.calls[o].apiKey = apiKey,
                    !.calls[o].result = Rejected(InvalidFormat)]
    ELSE SendRequest([sv EXCEPT !.calls[o].apiKey = apiKey], o, apiKey)

\* a call starts: getApiKey resolves at once with the environment key, or
\* asks the store (the database is opened on the way when it is not yet:
\* opens complete in the order they were asked for, so the transactions are
\* created in the order of the calls)
StartCall(sv, o, arg) ==
    IF EnvKeyUsable
    THEN AfterGetApiKey([sv EXCEPT !.calls[o].arg = arg], o, envKey)
    ELSE [sv EXCEPT !.calls[o].arg = arg, !.calls[o].pc = "getKey",
                    !.idb = Append(@, [kind |-> "get", owner |-> o])]

\* the service state sv becomes the next state
ServiceBecomes(sv) ==
    /\ calls' = sv.calls
    /\ idb' = sv.idb
    /\ aiClient' = sv.aiClient
    /\ requests' = sv.requests

\* try { ... JSON.parse(text) } catch (e) { ... } of analyzeImage
AnalyzeResult(image, outcome) ==
    IF outcome.kind = "json" THEN Fulfilled(AnalysisOf(image), NoText)
    ELSE IF outcome.error.apiKeyInMessage THEN Rejected(outcome.error)
    ELSE Fulfilled(DefaultRecord, NoText)

\* the text the service writes for the prompt of call o
PromptText(o) ==
    IF o = "position"
    THEN [kind |-> "position", from |-> NoSnapshot, to |-> gen.current]
    ELSE [kind |-> "movement", from |-> gen.original, to |-> gen.current]

\* return response.text || '' of the two prompt functions, which catch nothing
PromptResult(o, outcome) ==
    IF outcome.kind = "text" THEN Fulfilled(NoInfo, PromptText(o))
    ELSE IF outcome.kind = "notext" THEN Fulfilled(NoInfo, EmptyText)
    ELSE Rejected(outcome.error)

\* analyzeImageWithAI once analyzeImage has settled with result
analysisSettled(result) ==
    IF result.status = "fulfilled"
    THEN /\ setInitialState(result.info)
         /\ rigVisible' = TRUE
         /\ isAnalyzed' = TRUE
         /\ generateBtn' = "enabled"
         /\ UNCHANGED << toast, cleared >>
    ELSE /\ toast' = result.error.name
         /\ UNCHANGED << rigVars, isAnalyzed, uiVars >>

\* the two results written to each other's output
PromptsDisplayed_swapped(position, movement) == << movement.text, position.text >>

\* what generatePrompts writes once both calls have fulfilled
PromptsDisplayed(position, movement) == << position.text, movement.text >>

\* generatePrompts once call o has settled with result, cs being the calls
\* after that: Promise.all fulfils when both have, rejects with the first
\* rejection (gen.first: the call that settled first)
promptSettled(o, result, cs) ==
    LET Display(shown) ==
          /\ positionPrompt' = shown[1]
          /\ movementPrompt' = shown[2]
        first == IF gen.first = Null THEN o ELSE gen.first
    IN  IF gen.pc # "pending"
        THEN UNCHANGED << gen, positionPrompt, movementPrompt, toast >>
        ELSE IF result.status = "rejected"
        THEN /\ gen' = [gen EXCEPT !.pc = "rejected", !.first = first]
             /\ toast' = result.error.name
             /\ UNCHANGED << positionPrompt, movementPrompt >>
        ELSE IF \A x \in PromptCalls : cs[x].result.status = "fulfilled"
        THEN /\ gen' = [gen EXCEPT !.pc = "fulfilled", !.first = first]
             /\ Display(PromptsDisplayed(cs["position"].result,
                                         cs["movement"].result))
             /\ UNCHANGED toast
        ELSE /\ gen' = [gen EXCEPT !.first = first]
             /\ UNCHANGED << positionPrompt, movementPrompt, toast >>

\* the caller of call o continues after sv, in which o may have settled
callerContinues(o, sv) ==
    IF sv.calls[o].result.status = "pending"
    THEN /\ UNCHANGED << isAnalyzed, toast, gen, positionPrompt, movementPrompt >>
         /\ UNCHANGED << rigVars, uiVars >>
    ELSE IF o \in Images
    THEN /\ analysisSettled(sv.calls[o].result)
         /\ UNCHANGED << gen, positionPrompt, movementPrompt >>
    ELSE /\ promptSettled(o, sv.calls[o].result, sv.calls)
         /\ UNCHANGED << rigVars, isAnalyzed, uiVars >>

\* handleImageFile(file) for image i, from the choice of the file through
\* reader.onload up to the await of imagePlane.loadImage; the files are
\* read in the order A, B
handleImageFile(i) ==
    /\ calls[i].pc = "idle"
    /\ \A j \in Images : (j = "A" /\ i = "B") => calls[j].pc # "idle"
    /\ imageData' = i
    /\ calls' = [calls EXCEPT ![i].pc = "loading"]
    /\ cleared' = FALSE
    /\ UNCHANGED << rigVars, envKey, store, idb, aiClient, isAnalyzed,
                    gen, save, positionPrompt, movementPrompt, toast, requests,
                    rigVisible, generateBtn >>

\* image i has loaded: setAspectRatio, setImageSize with the size of its
\* plane, then analyzeImageWithAI up to its await of analyzeImage
imageLoaded(i) ==
    LET Sized(ar, iw, ih) ==
          /\ aspectRatio' = ar
          /\ imageWidth' = iw
          /\ imageHeight' = ih
          /\ updateViewportFrame(State, ar, iw, ih)
        Analyze(sv) ==
          /\ ServiceBecomes(sv)
          /\ IF sv.calls[i].result.status = "pending"
             THEN UNCHANGED toast
             ELSE toast' = sv.calls[i].result.error.name
    IN  /\ calls[i].pc = "loading"
        /\ Sized(ImageAspect(i), Mul(ImagePlaneHeight, ImageAspect(i)),
                 ImagePlaneHeight)
        /\ lastOp' = "setImageSize"
        /\ Analyze(StartCall(Service, i, imageData))
        /\ UNCHANGED << heap, state, originalState, originalShotType,
                        originalAngle, cameraArm, cameraPivot, orbitPath,
                        frustumLines, opCount, captured >>
        /\ UNCHANGED << envKey, store, imageData, isAnalyzed, gen, save,
                        positionPrompt, movementPrompt, uiVars >>

\* store.get succeeds for a call, no earlier readwrite transaction pending:
\* getApiKey resolves, getAIClient and the call go on to the request
getSuccess(k) ==
    LET Resumed(o, sv) ==
          /\ ServiceBecomes(sv)
          /\ callerContinues(o, sv)
    IN  /\ k \in 1..Len(idb)
        /\ idb[k].kind = "get"
        /\ \A j \in 1..(k - 1) : idb[j].kind # "put"
        /\ Resumed(idb[k].owner,
                   AfterGetApiKey([Service EXCEPT !.idb = RemoveAt(idb, k)],
                                  idb[k].owner, StoredKey))
        /\ UNCHANGED << envKey, store, imageData, save >>

\* the store cannot be read, indexedDB.open failing for the call: getApiKey
\* catches the rejection of openDB and resolves with null
getError(k) ==
    LET Resumed(o, sv) ==
          /\ ServiceBecomes(sv)
          /\ callerContinues(o, sv)
    IN  /\ k \in 1..Len(idb)
        /\ idb[k].kind = "get"
        /\ \A j \in 1..(k - 1) : idb[j].kind # "put"
        /\ Resumed(idb[k].owner,
                   AfterGetApiKey([Service EXCEPT !.idb = RemoveAt(idb, k)],
                                  idb[k].owner, Null))
        /\ UNCHANGED << envKey, store, imageData, save >>

\* resetAIClient(): the value of aiClient afterwards, here one that keeps it
resetAIClient_keep == aiClient

\* resetAIClient(): the value of aiClient afterwards
resetAIClient == Null

\* the click on the save button with a new key typed in
saveClick ==
    /\ save.pc = "idle"
    /\ idb' = Append(idb, [kind |-> "put", owner |-> "save"])
    /\ save' = [pc |-> "putting", key |-> NewKey]
    /\ UNCHANGED << rigVars, envKey, store, aiClient, imageData, isAnalyzed,
                    calls, gen, positionPrompt, movementPrompt, toast, requests,
                    uiVars >>

\* store.put succeeds, every earlier transaction finished: saveApiKey
\* resolves and the save handler resets the client
putSuccess(k) ==
    /\ k = 1
    /\ Len(idb) >= 1
    /\ idb[k].kind = "put"
    /\ store' = save.key
    /\ aiClient' = resetAIClient
    /\ save' = [save EXCEPT !.pc = "done"]
    /\ idb' = RemoveAt(idb, k)
    /\ UNCHANGED << rigVars, envKey, imageData, isAnalyzed, calls, gen,
                    positionPrompt, movementPrompt, toast, requests, uiVars >>

\* the request of analyzeImage for image i comes back
analysisResponse(i, outcome) ==
    LET Returned(sv) ==
          /\ ServiceBecomes(sv)
          /\ callerContinues(i, sv)
    IN  /\ calls[i].pc = "request"
        /\ Returned([Service EXCEPT
                        !.calls[i].pc = "settled",
                        !.calls[i].response = outcome.kind,
                        !.calls[i].result = AnalyzeResult(calls[i].arg, outcome)])
        /\ UNCHANGED << envKey, store, imageData, save >>

\* the request of prompt call o comes back
promptResponse(o, outcome) ==
    LET Returned(sv) ==
          /\ ServiceBecomes(sv)
          /\ callerContinues(o, sv)
    IN  /\ calls[o].pc = "request"
        /\ Returned([Service EXCEPT
                        !.calls[o].pc = "settled",
                        !.calls[o].response = outcome.kind,
                        !.calls[o].result = PromptResult(o, outcome)])
        /\ UNCHANGED << envKey, store, imageData, save >>

\* generatePrompts(): both snapshots, then both calls, then the await
generatePrompts ==
    /\ isAnalyzed
    /\ gen.pc = "idle"
    /\ gen' = [pc |-> "pending", first |-> Null,
               current |-> getState[2][getState[1]],
               original |-> getOriginalState[2][getOriginalState[1]]]
    /\ ServiceBecomes(StartCall(StartCall(Service, "position", Null),
                                "movement", Null))
    /\ UNCHANGED << rigVars, envKey, store, imageData, isAnalyzed, save,
                    positionPrompt, movementPrompt, toast, uiVars >>

\* a slider of the controls section, shown once an image is analysed
sliderInput(newState) ==
    /\ isAnalyzed
    /\ updateState(newState)
    /\ UNCHANGED appVars

\* clearImage(): the click on the remove button of the preview, which is
\* shown from reader.onload on until the image is removed
clearImage ==
    /\ imageData # Null
    /\ imageData' = Null
    /\ isAnalyzed' = FALSE
    /\ generateBtn' = "disabled"
    /\ rigVisible' = FALSE
    /\ positionPrompt' = Placeholder
    /\ movementPrompt' = Placeholder
    /\ cleared' = TRUE
    /\ UNCHANGED << rigVars, envKey, store, idb, aiClient, calls, gen, save,
                    toast, requests >>

AppInit ==
    /\ RigConstructed
    /\ AppConstructed
    /\ StorageLoaded
    /\ ManagerConstructed
    /\ \E s \in InitialSettings : envKey = s[1] /\ store = s[2]

AppNext ==
    \/ \E i \in Images : handleImageFile(i) /\ UNCHANGED << storageVars, registryVars >>
    \/ \E i \in Images : imageLoaded(i) /\ UNCHANGED << storageVars, registryVars >>
    \/ \E k \in 1..Len(idb) : getSuccess(k) /\ UNCHANGED << storageVars, registryVars >>
    \/ \E k \in 1..Len(idb) : getError(k) /\ UNCHANGED << storageVars, registryVars >>
    \/ \E k \in 1..Len(idb) : putSuccess(k) /\ UNCHANGED << storageVars, registryVars >>
    \/ \E i \in Images : \E outcome \in AnalysisOutcomes(i) :
          analysisResponse(i, outcome) /\ UNCHANGED << storageVars, registryVars >>
    \/ \E o \in PromptCalls : \E outcome \in PromptOutcomes :
          promptResponse(o, outcome) /\ UNCHANGED << storageVars, registryVars >>
    \/ generatePrompts /\ UNCHANGED << storageVars, registryVars >>
    \/ saveClick /\ UNCHANGED << storageVars, registryVars >>
    \/ \E p \in SliderInputs : sliderInput(p) /\ UNCHANGED << storageVars, registryVars >>

AppSpec == AppInit /\ [][AppNext]_vars

\* the application with the remove button of the preview in use as well
ClearNext ==
    \/ AppNext
    \/ clearImage /\ UNCHANGED << storageVars, registryVars >>

ClearSpec == AppInit /\ [][ClearNext]_vars

(***************************************************************************)
(* The settings store from inside: storage.js over IndexedDB.  Open        *)
(* requests complete in the order they were made; a readwrite transaction  *)
(* starts once every transaction created before it has finished, a         *)
(* readonly one once every readwrite transaction created before it has.    *)
(***************************************************************************)
\* the keys saveApiKey is called with
SavedKeys == {"K2", ""}

\* the calls made: getApiKey(), saveApiKey(k), clearApiKey()
StorageOps ==
    {[op |-> "get", key |-> Null], [op |-> "clear", key |-> Null]}
        \cup {[op |-> "save", key |-> k] : k \in SavedKeys}

\* the keys in the store before the first call
InitialStore == {Null, "K1"}

\* request.result?.value || null for the stored value v
ValueOrNull(v) == IF v \in {Null, ""} THEN Null ELSE v

\* the module's state with the requests it is waiting for
Database == [db |-> db, opens |-> opens, txs |-> txs, scalls |-> scalls]

DatabaseBecomes(st) ==
    /\ db' = st.db
    /\ opens' = st.opens
    /\ txs' = st.txs
    /\ scalls' = st.scalls

\* the promise executor of call c after await openDB(): the transaction and
\* its one request
Transaction(st, c) ==
    [st EXCEPT !.txs = Append(@, [owner |-> c,
                                  mode |-> IF st.scalls[c].op = "get"
                                           THEN "readonly" ELSE "readwrite"]),
               !.scalls[c].pc = "request"]

\* an openDB that relies on the handle: no open request when db is unset
openDB_relyOnHandle(st, c) ==
    IF st.db # Null THEN Transaction(st, c)
    ELSE [st EXCEPT !.scalls[c].pc = "opening"]

\* await openDB() of call c: the handle if there is one, else indexedDB.open
openDB(st, c) ==
    IF st.db # Null THEN Transaction(st, c)
    ELSE [st EXCEPT !.opens = Append(@, c), !.scalls[c].pc = "opening",
                    !.scalls[c].opened = TRUE]

\* a saveApiKey or clearApiKey that has started and not settled
WriteInFlight(c) ==
    /\ scalls[c].op \in {"save", "clear"}
    /\ scalls[c].pc \in {"opening", "request"}

\* call c starts as operation o, the calls being numbered as they start
storageCall(c, o) ==
    LET Started ==
          [Database EXCEPT !.scalls[c] =
              [IdleStorageCall EXCEPT !.op = o.op, !.key = o.key,
                                      !.after = lastWrite,
                                      !.quiet = \A b \in CallIds :
                                                    ~WriteInFlight(b)]]
    IN  /\ scalls[c].pc = "idle"
        /\ \A b \in CallIds : b < c => scalls[b].pc # "idle"
        /\ IF o.op = "get" /\ EnvKeyUsable
           THEN DatabaseBecomes([Started EXCEPT
                                    !.scalls[c].pc = "settled",
                                    !.scalls[c].result = Resolved(envKey)])
           ELSE DatabaseBecomes(openDB(Started, c))
        /\ UNCHANGED << rigVars, envKey, store, serviceVars, lastWrite >>

\* request.onsuccess of the oldest indexedDB.open: db is set and the call
\* that asked goes on to its transaction
openSuccess ==
    /\ opens # << >>
    /\ DatabaseBecomes(Transaction([Database EXCEPT !.db = "IDBDatabase",
                                                    !.opens = Tail(@)],
                                   Head(opens)))
    /\ UNCHANGED << rigVars, envKey, store, serviceVars, lastWrite >>

\* request.onerror of the oldest indexedDB.open: openDB rejects; getApiKey
\* catches that and resolves with null, the other two reject
openError ==
    LET Settled(c) ==
          [Database EXCEPT !.opens = Tail(@),
                           !.scalls[c].pc = "settled",
                           !.scalls[c].result =
                               IF scalls[c].op = "get" THEN Resolved(Null)
                               ELSE Failed]
    IN  /\ opens # << >>
        /\ DatabaseBecomes(Settled(Head(opens)))
        /\ UNCHANGED << rigVars, envKey, store, serviceVars, lastWrite >>

\* transaction k may run
Runnable(k) ==
    IF txs[k].mode = "readwrite" THEN k = 1
    ELSE \A j \in 1..(k - 1) : txs[j].mode # "readwrite"

\* request.onsuccess of the request of transaction k: get resolves with the
\* stored value or null, put and delete change the store and resolve
requestSuccess(k) ==
    LET Settled(c, value) ==
          [Database EXCEPT !.txs = RemoveAt(@, k),
                           !.scalls[c].pc = "settled",
                           !.scalls[c].result = Resolved(value)]
        Done(c) ==
          /\ IF scalls[c].op = "get"
             THEN /\ DatabaseBecomes(Settled(c, ValueOrNull(store)))
                  /\ UNCHANGED << store, lastWrite >>
             ELSE /\ DatabaseBecomes(Settled(c, Null))
                  /\ store' = IF scalls[c].op = "save" THEN scalls[c].key
                              ELSE Null
                  /\ lastWrite' = [op |-> scalls[c].op, key |-> scalls[c].key]
    IN  /\ k \in 1..Len(txs)
        /\ Runnable(k)
        /\ Done(txs[k].owner)
        /\ UNCHANGED << rigVars, envKey, serviceVars >>

StorageInit ==
    /\ RigConstructed
    /\ AppConstructed
    /\ StorageLoaded
    /\ ManagerConstructed
    /\ envKey \in {Undefined, "E"}
    /\ store \in InitialStore

StorageNext ==
    \/ \E c \in CallIds : \E o \in StorageOps :
          storageCall(c, o) /\ UNCHANGED registryVars
    \/ openSuccess /\ UNCHANGED registryVars
    \/ openError /\ UNCHANGED registryVars
    \/ \E k \in 1..Len(txs) : requestSuccess(k) /\ UNCHANGED registryVars

StorageSpec == StorageInit /\ [][StorageNext]_vars

\* IndexedDB answers every request it was given
StorageFairSpec ==
    /\ StorageSpec
    /\ WF_vars(openSuccess \/ openError)
    /\ \A k \in CallIds : WF_vars(requestSuccess(k))

(***************************************************************************)
(* The SceneManager: the scene and the registry of the objects added to it *)
(* under a key.                                                            *)
(***************************************************************************)
\* the keys the application adds under, and the keys remove is called with
Keys == {"imagePlane", "cameraRig"}
RemoveKeys == Keys \cup {"grid"}

\* the objects add is called with: two groups, and null
Groups == {"group1", "group2"}
AddedObjects == Groups \cup {Null}

\* the manager's scene and registry
Registry == [objects |-> objects, scene |-> scene]

\* this.objects.get(key)
get(rs, key) == IF key \in DOMAIN rs.objects THEN rs.objects[key] ELSE Undefined

\* this.scene.add(object): an Object3D becomes a child of the scene, once;
\* anything else is reported and left out
sceneAdd(rs, object) ==
    IF object \in {Null, Undefined} THEN rs
    ELSE [rs EXCEPT !.scene = @ \cup {object}]

\* remove(key)
remove(rs, key) ==
    IF get(rs, key) \in {Null, Undefined} THEN rs
    ELSE [objects |-> [k \in DOMAIN rs.objects \ {key} |-> rs.objects[k]],
          scene |-> rs.scene \ {rs.objects[key]}]

\* an add that leaves what the key held in the scene
add_keepPrevious(rs, key, object) ==
    sceneAdd([rs EXCEPT !.objects = (key :> object) @@ @], object)

\* add(key, object)
add(rs, key, object) ==
    LET Set(freed) ==
          sceneAdd([freed EXCEPT !.objects = (key :> object) @@ @], object)
    IN  Set(IF key \in DOMAIN rs.objects THEN remove(rs, key) ELSE rs)

\* for (const [key] of this.objects) this.remove(key)
RECURSIVE removeEach(_, _)
removeEach(rs, keys) ==
    IF keys = {} THEN rs
    ELSE LET key == CHOOSE k \in keys : TRUE
         IN  removeEach(remove(rs, key), keys \ {key})

\* dispose()
dispose(rs) == removeEach(rs, DOMAIN rs.objects)

RegistryBecomes(rs) ==
    /\ objects' = rs.objects
    /\ scene' = rs.scene

\* sceneManager.add(key, object) is called
addCalled(key, object) ==
    /\ RegistryBecomes(add(Registry, key, object))
    /\ lastCall' = [op |-> "add", key |-> key, object |-> object,
                    previous |-> get(Registry, key)]
    /\ UNCHANGED << rigVars, appVars, storageVars >>

\* sceneManager.remove(key) is called
removeCalled(key) ==
    /\ RegistryBecomes(remove(Registry, key))
    /\ lastCall' = [op |-> "remove", key |-> key, object |-> Null,
                    previous |-> get(Registry, key)]
    /\ UNCHANGED << rigVars, appVars, storageVars >>

\* sceneManager.dispose() is called
disposeCalled ==
    /\ RegistryBecomes(dispose(Registry))
    /\ lastCall' = [op |-> "dispose", key |-> Null, object |-> Null,
                    previous |-> Undefined]
    /\ UNCHANGED << rigVars, appVars, storageVars >>

RegistryInit ==
    /\ RigConstructed
    /\ AppConstructed
    /\ StorageLoaded
    /\ ManagerConstructed
    /\ envKey = Undefined
    /\ store = Null

RegistryNext ==
    \/ \E key \in Keys : \E object \in AddedObjects : addCalled(key, object)
    \/ \E key \in RemoveKeys : removeCalled(key)
    \/ disposeCalled

RegistrySpec == RegistryInit /\ [][RegistryNext]_vars

(***************************************************************************)
(* Properties of the service and the App.                                  *)
(***************************************************************************)
\* the fields of the default record that the claim lists
ClaimedDefault ==
    [distance |-> 3, focalLength |-> 50, pitch |-> 0, yaw |-> 0, roll |-> 0,
     height |-> 1600, shotType |-> "medium shot", angle |-> "eye level",
     lens |-> "normal"]

\* the analyzeImage call for image i made its request (it had a client and
\* well-formed data) and has settled
AnalysisAnswered(i) == calls[i].pc = "settled" /\ calls[i].sent > 0

\* C15: an analyzeImage call that had a client and well-formed image data
\* returns the fixed default record, and does not reject, whenever the
\* response text cannot be parsed as JSON; it rejects only when the request
\* failed with an authentication/credential error.
C15_DefaultOnUnparseable ==
    \A i \in Images : AnalysisAnswered(i) =>
        /\ calls[i].response = "text" =>
              /\ calls[i].result.status = "fulfilled"
              /\ \A f \in DOMAIN ClaimedDefault :
                    calls[i].result.info[f] = ClaimedDefault[f]
        /\ calls[i].result.status = "rejected" => calls[i].response = "auth"

\* what holds of the code: the default record for every failure whose
\* message does not contain 'API key', a rejection for every one that does
DefaultUnlessMessageHasApiKey ==
    \A i \in Images : (AnalysisAnswered(i) /\ calls[i].response # "json") =>
        IF calls[i].result.status = "rejected"
        THEN calls[i].result.error.apiKeyInMessage
        ELSE calls[i].result.info = DefaultRecord

\* C16: a transport/network failure of the external request of analyzeImage,
\* generatePositionPrompt or generateMovementPrompt is surfaced as a rejected
\* call, not turned into a successful result, and the request is not retried.
C16_NetworkFailureRejects ==
    \A o \in Owners : (calls[o].pc = "settled" /\ calls[o].response = "network") =>
        /\ calls[o].result.status = "rejected"
        /\ calls[o].sent = 1

\* what holds of the code: the two prompt calls reject on a network failure
\* and no call sends more than one request
PromptNetworkFailureRejects ==
    /\ \A o \in PromptCalls :
          (calls[o].pc = "settled" /\ calls[o].response = "network") =>
              calls[o].result.status = "rejected"
    /\ \A o \in Owners : calls[o].sent <= 1

\* getApiKey of call o resolved with null or the empty string
KeyMissing(call) == call.apiKey \in {Null, ""}

\* C17: when getApiKey yields null or empty for a call of analyzeImage,
\* generatePositionPrompt or generateMovementPrompt, the call rejects with
\* the 'API key not configured' error in that very step, without an external
\* request, and stays rejected; that step neither initializes the rig nor
\* writes a prompt output.
C17_MissingKeyRejects ==
    [][\A o \in Owners :
          /\ (calls[o].apiKey = "none" /\ KeyMissing(calls'[o])) =>
                /\ calls'[o].result = Rejected(NotConfigured)
                /\ calls'[o].sent = 0
                /\ requests' = requests
                /\ UNCHANGED << heap, state, originalState, originalShotType,
                                originalAngle, captured, isAnalyzed,
                                positionPrompt, movementPrompt >>
          /\ KeyMissing(calls[o]) => calls'[o] = calls[o]]_vars

\* an analysis and a position-prompt call that both found no key: both are
\* rejected, nothing was requested for them, the outputs hold no prompt
C17_Witness ==
    /\ \E i \in Images :
          /\ KeyMissing(calls[i])
          /\ calls[i].result = Rejected(NotConfigured)
          /\ \A r \in requests : r.owner # i
    /\ KeyMissing(calls["position"])
    /\ calls["position"].result = Rejected(NotConfigured)
    /\ \A r \in requests : r.owner # "position"
    /\ gen.pc = "rejected"
    /\ positionPrompt = Placeholder
    /\ movementPrompt = Placeholder

\* C18 as stated: once the save handler has completed for the new key,
\* every external request started afterwards is made by a client constructed
\* with that key, however the handler interleaved with calls in flight.
C18_RequestsAfterSaveUseNewKey ==
    \A r \in requests : r.afterSave => r.client = NewKey

\* C18: in a build without a usable environment key, once the save handler
\* has completed for the new key, every external request started afterwards
\* is made by a client constructed with that key, however the handler
\* interleaved with calls in flight; in a build with an environment key
\* every request is made by a client constructed with the environment key.
C18_RequestsUseKeyInForce ==
    \A r \in requests :
        IF EnvKeyUsable THEN r.client = envKey
        ELSE r.afterSave => r.client = NewKey

\* no environment key: a request made with the stored key K1 before the
\* save completed, and a request made with the new key after it
C18_Witness ==
    /\ ~EnvKeyUsable
    /\ save.pc = "done"
    /\ \E r \in requests : ~r.afterSave /\ r.client = "K1"
    /\ \E r \in requests : r.afterSave /\ r.client = NewKey

\* the OriginalState and tags are those setInitialState derives from info
OriginalFrom(info) ==
    /\ Original = InitialState(info)
    /\ originalShotType = Get(info, "shotType")
    /\ originalAngle = Get(info, "angle")

\* C19: whenever the image loaded last has finished loading and its analysis
\* call has settled, the OriginalState and the shotType/angle tags of the rig
\* are those derived from that image's analysis or from the default record,
\* so that nothing derived from an image loaded before remains.
C19_OriginalFromLatestImage ==
    \A i \in Images : (imageData = i /\ calls[i].pc = "settled") =>
        (OriginalFrom(AnalysisOf(i)) \/ OriginalFrom(DefaultRecord))

\* image B loaded after image A, its analysis rejected, and the reset target
\* and tags still those of image A
StaleOriginalAfterRejectedAnalysis ==
    /\ imageData = "B"
    /\ calls["B"].pc = "settled"
    /\ calls["B"].result.status = "rejected"
    /\ calls["A"].pc = "settled"
    /\ OriginalFrom(AnalysisOf("A"))

\* the two prompt calls are started together, and once both have fulfilled
\* each output shows the text of its own call for the snapshots of gen
PromptOutputsOwnResults ==
    /\ calls["position"].pc = "idle" <=> calls["movement"].pc = "idle"
    /\ gen.pc = "idle" <=> calls["position"].pc = "idle"
    /\ (\A o \in PromptCalls : calls[o].result.status = "fulfilled") =>
          /\ gen.pc = "fulfilled"
          /\ positionPrompt =
                [kind |-> "position", from |-> NoSnapshot, to |-> gen.current]
          /\ movementPrompt =
                [kind |-> "movement", from |-> gen.original, to |-> gen.current]

\* the snapshots of gen are the live state and the OriginalState with the
\* tags at the step that starts the calls, and never change afterwards
SnapshotsTakenAtStart ==
    /\ (gen.pc = "idle" /\ gen'.pc # "idle") =>
          /\ gen'.current = State @@ Tags
          /\ gen'.original = Original @@ Tags
    /\ gen.pc # "idle" =>
          /\ gen'.current = gen.current
          /\ gen'.original = gen.original

\* C20: generatePrompts starts the position and the movement call together,
\* before it awaits either; whenever both succeed, in either order of
\* completion and however long one is delayed, the position output shows the
\* position call's result and the movement output the movement call's, each
\* for the snapshots taken before the calls started.
C20_PromptCallsIndependent ==
    [][SnapshotsTakenAtStart /\ PromptOutputsOwnResults']_vars

\* both calls fulfilled, the movement call first, and a slider moved while
\* they were in flight: the outputs are for the snapshot, not the live state
C20_Witness ==
    /\ gen.pc = "fulfilled"
    /\ gen.first = "movement"
    /\ State.orbitH # gen.current.orbitH
    /\ positionPrompt.kind = "position"
    /\ positionPrompt.to = gen.current
    /\ movementPrompt.kind = "movement"
    /\ movementPrompt.from = gen.original

(***************************************************************************)
(* Further properties of the rig.                                          *)
(***************************************************************************)
\* C22: setInitialState({distance: d, ...}) and updateState({distance: d})
\* accept any numeric distance d, d <= 0 included, as it is: the distance of
\* the live state is then exactly d, neither clamped nor replaced.
C22_DistanceAcceptedAsIs ==
    [][/\ \A info \in CameraInfos :
             ("distance" \in DOMAIN info /\ setInitialState(info))
                 => heap'[state'].distance = info["distance"]
       /\ \A d \in Distances :
             updateState("distance" :> d) => heap'[state'].distance = d]_vars

\* what holds of the code: updateState takes every distance as it is
UpdateStateTakesDistanceAsIs ==
    [][\A d \in Distances :
          updateState("distance" :> d) => heap'[state'].distance = d]_vars

\* C23: whatever setInitialState, updateState and resetToOriginal calls were
\* made, orbitV of the live state is never exactly +90 or -90 degrees.
C23_OrbitVNeverVertical ==
    State.orbitV \notin {90, -90}

\* the z-offset and flip of the frame follow the side the camera is on, the
\* five points share the offset and the fifth closes the frame on the first
FrameOnCameraSide ==
    /\ CameraZ > 0 =>
          /\ viewportPlane.position[3] = Fin(FrameOffset)
          /\ viewportPlane.rotationY = 0
    /\ CameraZ < 0 =>
          /\ viewportPlane.position[3] = Fin(-FrameOffset)
          /\ viewportPlane.rotationY = PiDeg
    /\ \A i \in 1..5 : viewportFrame.positions[i][3] = viewportPlane.position[3]
    /\ viewportFrame.positions[5] = viewportFrame.positions[1]

\* C24 as stated: in every state in which the frame is visible, cameraZ > 0
\* gives z-offset +0.01 and rotation 0, cameraZ < 0 gives z-offset -0.01 and
\* rotation pi; the four corners and the fifth point share that offset and
\* the fifth point equals the first.
C24_FrameSideWheneverVisible ==
    viewportFrame.visible => FrameOnCameraSide

\* C24: in every state produced by a rig operation in which the frame is
\* visible, cameraZ > 0 gives z-offset +0.01 and rotation 0, cameraZ < 0
\* gives z-offset -0.01 and rotation pi; the four corners and the fifth
\* point share that offset and the fifth point equals the first.
C24_FrameSideAfterOperation ==
    (lastOp \in RigOps /\ viewportFrame.visible) => FrameOnCameraSide

\* a camera behind the image (negative distance): the frame is visible, sits
\* behind the plane and is flipped
C24_Witness ==
    /\ lastOp \in RigOps
    /\ viewportFrame.visible
    /\ CameraZ < 0
    /\ viewportPlane.position[3] = Fin(-FrameOffset)
    /\ viewportPlane.rotationY = PiDeg
    /\ \A i \in 1..5 : viewportFrame.positions[i][3] = Fin(-FrameOffset)

(***************************************************************************)
(* Further properties of the application: images loaded one after another. *)
(***************************************************************************)
\* the image loaded last has been analysed by its own call, successfully
LatestImageAnalyzed ==
    /\ imageData \in Images
    /\ calls[imageData].result.status = "fulfilled"

\* C25: prompt requests are issued only for an analysed current image: a
\* prompt call has sent a request only if generatePrompts ran with isAnalyzed
\* true, isAnalyzed is true only if the analysis call of the image loaded
\* last has returned successfully, and it is not left true once the analysis
\* of a second image has rejected.
C25_AnalyzedMeansLatestImage ==
    /\ (\E o \in PromptCalls : calls[o].sent > 0) => gen.pc # "idle"
    /\ isAnalyzed => LatestImageAnalyzed
    /\ calls["B"].result.status = "rejected" => ~isAnalyzed

\* prompt requests are sent by a generatePrompts invocation alone, and one
\* starts its calls only if it found isAnalyzed true
PromptRequestsOnlyWhenAnalyzed ==
    [][/\ (gen.pc = "idle" /\ gen'.pc # "idle") => isAnalyzed
       /\ (\E o \in PromptCalls : calls'[o].sent > calls[o].sent)
             => gen'.pc # "idle"]_vars

\* image B's analysis has rejected and isAnalyzed is still true from image A
AnalyzedLeftFromFirstImage ==
    /\ imageData = "B"
    /\ calls["B"].result.status = "rejected"
    /\ calls["A"].result.status = "fulfilled"
    /\ isAnalyzed

\* both analysis calls have returned a record parsed from the model's answer
BothAnalysesFulfilled ==
    \A i \in Images : /\ calls[i].result.status = "fulfilled"
                      /\ calls[i].response = "json"

\* C27: the last loaded image wins: once the analyses of A and of B, loaded
\* in that order, have both settled, the OriginalState and tags of the rig
\* and the state set by the last setInitialState are those derived from B's
\* analysis, and so is the live state while no other operation has followed,
\* whatever the order in which the two responses arrive.
C27_LastLoadedImageWins ==
    BothAnalysesFulfilled =>
        /\ OriginalFrom(AnalysisOf("B"))
        /\ captured.state = InitialState(AnalysisOf("B"))
        /\ lastOp = "setInitialState" => State = InitialState(AnalysisOf("B"))

\* image A's request was sent before B was loaded and answered after B's:
\* the rig is left with the state, OriginalState and tags of image A
FirstImageWinsWhenAnsweredLast ==
    /\ BothAnalysesFulfilled
    /\ imageData = "B"
    /\ calls["A"].arg = "A"
    /\ lastOp = "setInitialState"
    /\ State = InitialState(AnalysisOf("A"))
    /\ OriginalFrom(AnalysisOf("A"))

\* what the code does: the record of the analysis that settled last is the
\* one the rig holds, from whichever image it was derived
LastAnswerWins ==
    BothAnalysesFulfilled =>
        \E i \in Images : /\ OriginalFrom(AnalysisOf(calls[i].arg))
                          /\ captured.state = InitialState(AnalysisOf(calls[i].arg))

(***************************************************************************)
(* Further properties of the application: the image removed.               *)
(***************************************************************************)
\* C26: clearImage is final until a new image is loaded: after clearImage has
\* run and before any later handleImageFile starts, isAnalyzed is false, the
\* camera rig is hidden and the generate button is disabled, also when an
\* analysis request for the removed image was in flight and completes later.
C26_ClearedStaysCleared ==
    cleared => /\ ~isAnalyzed
               /\ ~rigVisible
               /\ generateBtn = "disabled"

\* the image was removed while its analysis request was in flight, and the
\* answer has shown the rig and enabled the controls with no image loaded
AnalysisCompletedAfterClear ==
    /\ cleared
    /\ imageData = Null
    /\ \E i \in Images : calls[i].result.status = "fulfilled"
    /\ isAnalyzed
    /\ rigVisible
    /\ generateBtn = "enabled"

\* what clearImage itself establishes, in the step that runs it
ClearImageHidesEverything ==
    [][cleared' /\ ~cleared => /\ ~isAnalyzed'
                               /\ ~rigVisible'
                               /\ generateBtn' = "disabled"
                               /\ imageData' = Null]_vars

(***************************************************************************)
(* Properties of the settings store.                                       *)
(***************************************************************************)
\* call c reads or writes the store: every call but a getApiKey answered
\* from the environment
UsesStore(c) ==
    /\ scalls[c].pc # "idle"
    /\ ~(scalls[c].op = "get" /\ EnvKeyUsable)

\* while the handle is unset every started call has asked for the database
\* itself, and a call has its transaction only on an opened database
OpensOnFirstUse ==
    \A c \in CallIds :
        /\ (UsesStore(c) /\ db = Null) => scalls[c].opened
        /\ scalls[c].pc = "request" => db # Null

\* every call that has not settled waits for a request of its own that
\* IndexedDB still has to answer
NoCallStuck ==
    \A c \in CallIds :
        /\ scalls[c].pc = "opening" => \E j \in 1..Len(opens) : opens[j] = c
        /\ scalls[c].pc = "request" => \E j \in 1..Len(txs) : txs[j].owner = c

\* getApiKey call c has resolved, having started after a write had resolved
\* and with no other write in flight
ReadAfter(c, op) ==
    /\ scalls[c].op = "get"
    /\ scalls[c].pc = "settled"
    /\ scalls[c].quiet
    /\ scalls[c].after.op = op

\* C21: the settings store is safe to use before it has been opened: with no
\* environment key, whichever calls come first and however many are started
\* while the handle is unset, each opens the database on first use and
\* completes; a getApiKey started after saveApiKey(k) resolved returns k, one
\* started after clearApiKey resolved returns null.
C21_SafeBeforeOpened ==
    ~EnvKeyUsable =>
        /\ OpensOnFirstUse
        /\ NoCallStuck
        /\ \A c \in CallIds :
              /\ ReadAfter(c, "save") =>
                    scalls[c].result = Resolved(scalls[c].after.key)
              /\ ReadAfter(c, "clear") => scalls[c].result = Resolved(Null)

\* C21, amended: as above, a getApiKey started after saveApiKey(k) resolved
\* returning k for a non-empty k and null for the empty string.
C21_SafeBeforeOpenedNonEmptyKey ==
    ~EnvKeyUsable =>
        /\ OpensOnFirstUse
        /\ NoCallStuck
        /\ \A c \in CallIds :
              /\ (ReadAfter(c, "save") /\ scalls[c].after.key # "") =>
                    scalls[c].result = Resolved(scalls[c].after.key)
              /\ (ReadAfter(c, "save") /\ scalls[c].after.key = "") =>
                    scalls[c].result = Resolved(Null)
              /\ ReadAfter(c, "clear") => scalls[c].result = Resolved(Null)

\* a saveApiKey("K2") and a clearApiKey both started while the handle was
\* unset, each with an open request of its own, both resolved, and a
\* getApiKey started after them that has returned what was written last
C21_Witness ==
    /\ ~EnvKeyUsable
    /\ store = "K2"
    /\ scalls[1].op = "clear" /\ scalls[1].opened
    /\ scalls[2].op = "save" /\ scalls[2].key = "K2" /\ scalls[2].opened
    /\ scalls[1].result.status = "fulfilled"
    /\ scalls[2].result.status = "fulfilled"
    /\ ReadAfter(3, "save")
    /\ scalls[3].result = Resolved("K2")

\* every call that has started settles
StorageCallsSettle ==
    \A c \in CallIds : (scalls[c].pc # "idle") ~> (scalls[c].pc = "settled")

(***************************************************************************)
(* Properties of the SceneManager.                                         *)
(***************************************************************************)
\* every registered object is in the scene, and no group is in the scene
\* without being registered
RegisteredAreInScene ==
    /\ \A k \in DOMAIN objects : objects[k] \in scene
    /\ \A o \in Groups : o \in scene => \E k \in DOMAIN objects : objects[k] = o

\* C28: the registry and the scene stay in step under any sequence of add,
\* remove and dispose: an object registered through add(key, obj) is in the
\* scene exactly while it is the value of its key in the registry, add on an
\* existing key has removed the previous object from the scene, and after
\* dispose no key added through add is registered or in the scene.
C28_RegistryAndSceneInStep ==
    /\ RegisteredAreInScene
    /\ (lastCall.op = "add" /\ lastCall.previous \notin {Undefined, lastCall.object})
          => lastCall.previous \notin scene
    /\ lastCall.op = "dispose" =>
          /\ \A k \in Keys : k \notin DOMAIN objects
          /\ scene \cap Groups = {}

\* the registry and the scene in step, no object under two keys
InStep ==
    /\ RegisteredAreInScene
    /\ \A j, k \in DOMAIN objects : objects[j] = objects[k] => j = k

\* the call made by the step is add with an object that is registered under
\* no other key, remove, or dispose
ProperCall ==
    lastCall'.op = "add" =>
        /\ lastCall'.object \in Groups
        /\ \A k \in DOMAIN objects \ {lastCall'.key} :
              objects[k] # lastCall'.object

\* the other keys hold after the step what they held before
OtherKeysKept(key) ==
    \A k \in DOMAIN objects \ {key} :
        k \in DOMAIN objects' /\ objects'[k] = objects[k]

\* what the call made by the step has done
CallEffect ==
    LET AddEffect(key, object) ==
          /\ key \in DOMAIN objects' /\ objects'[key] = object
          /\ object \in scene'
          /\ (key \in DOMAIN objects /\ objects[key] # object)
                => objects[key] \notin scene'
          /\ OtherKeysKept(key)
        RemoveEffect(key) ==
          IF key \in DOMAIN objects
          THEN /\ key \notin DOMAIN objects'
               /\ objects[key] \notin scene'
               /\ OtherKeysKept(key)
          ELSE objects' = objects /\ scene' = scene
        DisposeEffect ==
          /\ DOMAIN objects' = {}
          /\ scene' = Lights
    IN  /\ lastCall'.op = "add" => AddEffect(lastCall'.key, lastCall'.object)
        /\ lastCall'.op = "remove" => RemoveEffect(lastCall'.key)
        /\ lastCall'.op = "dispose" => DisposeEffect

\* C28, amended: as long as add is called with objects (not null) that are
\* registered under no other key, the registry and the scene stay in step:
\* each key maps to one object, a registered object is in the scene exactly
\* while it is the value of its key, add on an existing key removes the
\* previous object from the scene, remove on an unknown key changes nothing,
\* and after dispose nothing is registered and only the lights are left.
C28_InStepForDistinctObjects ==
    [][(InStep /\ ProperCall) => (InStep' /\ CallEffect)]_vars

\* add('imagePlane', group2) on the key that held group1: group2 is
\* registered and in the scene, group1 is in neither
C28_Witness ==
    /\ lastCall.op = "add"
    /\ lastCall.key = "imagePlane"
    /\ lastCall.previous = "group1"
    /\ objects["imagePlane"] = "group2"
    /\ "group2" \in scene
    /\ "group1" \notin scene
    /\ InStep

\* one group added under both keys and removed under one: it is still the
\* value of the other key and no longer in the scene
RegisteredButNotInScene ==
    /\ lastCall.op = "remove"
    /\ \E k \in Keys : k \in DOMAIN objects /\ objects[k] \in Groups
                       /\ objects[k] \notin scene

\* a key added with null is still registered after dispose
NullStaysRegistered ==
    /\ lastCall.op = "dispose"
    /\ \E k \in Keys : k \in DOMAIN objects /\ objects[k] = Null

=============================================================================
